---- MODULE Spec2Model ----
(***************************************************************************)
(* A model of NinjaRipper-OBJ.py: the batch loop of __main__, the reader   *)
(* convert_rip_to_obj (header words, face-start search, face loop, vertex  *)
(* loop), the texture-name scan find_dds_textures and the two exporters    *)
(* (OBJ/MTL text, GLB binary).                                             *)
(*                                                                         *)
(* A file is a sequence of bytes (0..255); file offsets are 0-based as in  *)
(* the source, so the byte at offset p is d[p + 1].  A 32-bit float is     *)
(* represented in fixed point: the decoded word w stands for the number    *)
(* w / FloatOne, so that 1.0 - v is FloatOne - v.                          *)
(***************************************************************************)
EXTENDS Integers, Sequences, FiniteSets, TLC

\* ---------------------------------------------------------------- bounds
MaxFaces == 2
MaxVerts == 2
MaxArgs == 2
MaxChunks == 4

\* ------------------------------------------------------- module constants
\* UV_OFFSET_MAP (stride -> byte offset of the UV pair inside a record).
UV_OFFSET_MAP == [s \in {184, 160, 56, 20} |->
                    CASE s = 184 -> 60
                      [] s = 160 -> 52
                      [] s = 56  -> 48
                      [] s = 20  -> 12]

\* The literal 1.0 of "v = 1.0 - v" in the fixed-point representation.
FloatOne == 4

\* b'.dds\x00'
DdsPattern == <<46, 100, 100, 115, 0>>

\* b'\x00\x00\x00\x00\x01\x00\x00\x00\x02\x00\x00\x00'
FacePattern == <<0, 0, 0, 0, 1, 0, 0, 0, 2, 0, 0, 0>>

\* ------------------------------------------------------ sequence helpers
Min(S) == CHOOSE x \in S : \A y \in S : x <= y

Max2(a, b) == IF a >= b THEN a ELSE b

RECURSIVE Flatten(_)
Flatten(ss) == IF ss = <<>> THEN <<>> ELSE Head(ss) \o Flatten(Tail(ss))

\* ------------------------------------------------------- primitive reads
\* safe_read succeeds iff size bytes are available at pos (f.read returns
\* fewer bytes otherwise, also when pos is past the end, and EOFError is
\* raised).
CanRead(d, pos, size) == pos + size <= Len(d)

\* The bytes f.read(size) returns at offset pos when CanRead holds.
Slice(d, pos, size) == SubSeq(d, pos + 1, pos + size)

\* struct.unpack("<I", b)
UnpackU32(b) == b[1] + 256 * b[2] + 65536 * b[3] + 16777216 * b[4]

\* struct.unpack("<f", b), in the fixed-point representation.
UnpackFloat(b) == b[1] + 256 * b[2] + 65536 * b[3] + 16777216 * b[4]

\* read_int32 / read_float at an offset where the read succeeds.
ReadInt32At(d, pos) == UnpackU32(Slice(d, pos, 4))
ReadFloatAt(d, pos) == UnpackFloat(Slice(d, pos, 4))

\* data.find(pattern, from): the least offset >= from where pattern occurs,
\* or -1.
Find(d, pat, from) ==
    LET cands == {p \in from .. (Len(d) - Len(pat)) :
                     \A k \in 1 .. Len(pat) : d[p + k] = pat[k]}
    IN IF cands = {} THEN -1 ELSE Min(cands)

\* ------------------------------------------------------ find_dds_textures
\* The inner while: walk back from pos to the byte after the nearest 0x00
\* or 0xFF (or to offset 0).
RECURSIVE NameStart(_, _)
NameStart(d, start) ==
    IF start > 0 /\ d[start] \notin {0, 255}
    THEN NameStart(d, start - 1)
    ELSE start

\* bytes.decode('ascii', errors='ignore'): bytes >= 0x80 are dropped.
DecodeAscii(b) == SelectSeq(b, LAMBDA x : x < 128)

\* data[start:pos + 4].decode(...) for the occurrence of the pattern at pos.
TextureNameAt(d, pos) ==
    DecodeAscii(SubSeq(d, NameStart(d, pos) + 1, pos + 4))

InSeq(x, s) == \E k \in 1 .. Len(s) : s[k] = x

\* A faulty variant of DdsIter: the name is appended without the membership test.
DdsIter_NoDedup(d, st) ==
    LET pos == Find(d, DdsPattern, st.search_pos)
    IN IF pos = -1
       THEN [st EXCEPT !.done = TRUE]
       ELSE LET name == TextureNameAt(d, pos)
            IN [textures   |-> IF name # <<>>
                               THEN Append(st.textures, name)
                               ELSE st.textures,
                search_pos |-> pos + Len(DdsPattern),
                done       |-> FALSE]

\* One iteration of "while len(textures) < 3" (entered only when the
\* condition holds): the break, or the append and the advance.
DdsIter(d, st) ==
    LET pos == Find(d, DdsPattern, st.search_pos)
    IN IF pos = -1
       THEN [st EXCEPT !.done = TRUE]
       ELSE LET name == TextureNameAt(d, pos)
            IN [textures   |-> IF name # <<>> /\ ~InSeq(name, st.textures)
                               THEN Append(st.textures, name)
                               ELSE st.textures,
                search_pos |-> pos + Len(DdsPattern),
                done       |-> FALSE]

DdsLoopExit(st) == st.done \/ Len(st.textures) >= 3

RECURSIVE DdsRun(_, _)
DdsRun(d, st) == IF DdsLoopExit(st) THEN st ELSE DdsRun(d, DdsIter(d, st))

DdsStart == [textures |-> <<>>, search_pos |-> 0, done |-> FALSE]

find_dds_textures(d) == DdsRun(d, DdsStart).textures

\* -------------------------------------------------------------- the inputs
\* A RIP file as the capture tool writes it: 8 header bytes (signature and
\* version), face count, vertex count, record size, texture count, shader
\* count, attribute count, then the attribute table and the names, the
\* faces and the vertex records.  The converter reads the words at 0x8, 0xC
\* and 0x10 only and finds the faces by pattern.
LE32(w) == <<w % 256, (w \div 256) % 256, (w \div 65536) % 256,
             (w \div 16777216) % 256>>

\* Signature 0xDEADC0DE and version 4, and a header with both wrong.
GoodMagic == <<222, 192, 173, 222, 4, 0, 0, 0>>
BadMagic == <<0, 0, 0, 0, 3, 0, 0, 0>>
Magics == {GoodMagic, BadMagic}

AttrEntry(ch, off) ==
    <<ch, 0>> \o LE32(0) \o LE32(off) \o LE32(12) \o LE32(3)
              \o LE32(0) \o LE32(0) \o LE32(0)

\* What lies between the header and the faces: nothing; one texture name
\* "a.dds"; two attributes and one shader name.
TableChoices ==
    { [tex |-> 0, sh |-> 0, attr |-> 0, bytes |-> <<>>],
      [tex |-> 1, sh |-> 0, attr |-> 0,
       bytes |-> <<97, 46, 100, 100, 115, 0>>],
      [tex |-> 0, sh |-> 1, attr |-> 2,
       bytes |-> AttrEntry(80, 0) \o AttrEntry(78, 12) \o <<115, 0>>] }

FaceChoices == { <<0, 1, 2>>, <<2, 2, 5>> }

Strides == {184, 160, 56, 20, 32}

\* Bytes removed from the end of the file (a truncated capture).
CutChoices == {0, 4, 116, 100000}

FaceBytes(fs) ==
    Flatten([k \in 1 .. Len(fs) |->
                LE32(fs[k][1]) \o LE32(fs[k][2]) \o LE32(fs[k][3])])

\* Word k of vertex record i.
VWord(i, k) == ((i + k) % 3) + 1

VertexBytes(vc, st) ==
    Flatten([j \in 1 .. vc * (st \div 4) |->
                LE32(VWord((j - 1) \div (st \div 4), (j - 1) % (st \div 4)))])

Truncate(d, cut) == IF cut >= Len(d) THEN <<>> ELSE SubSeq(d, 1, Len(d) - cut)

RipFile(hm, fs, vc, st, tab, cut) ==
    [isfile  |-> TRUE,
     faceOff |-> 32 + Len(tab.bytes),
     data    |-> Truncate(hm \o LE32(Len(fs)) \o LE32(vc) \o LE32(st)
                             \o LE32(tab.tex) \o LE32(tab.sh) \o LE32(tab.attr)
                             \o tab.bytes \o FaceBytes(fs)
                             \o VertexBytes(vc, st), cut)]

\* A command-line argument that os.path.isfile rejects.
NotAFile == [isfile |-> FALSE, faceOff |-> 0, data |-> <<>>]

SeqsUpTo(S, n) == UNION {[1 .. m -> S] : m \in 0 .. n}

RipFiles ==
    { RipFile(hm, fs, vc, st, tab, cut) :
        hm \in Magics, fs \in SeqsUpTo(FaceChoices, MaxFaces),
        vc \in 0 .. MaxVerts, st \in Strides, tab \in TableChoices,
        cut \in CutChoices }

\* The files of the batch runs: a file that converts, an empty file, a
\* file without the face pattern, a file with a texture name.
BatchFiles ==
    LET t0 == [tex |-> 0, sh |-> 0, attr |-> 0, bytes |-> <<>>]
        t1 == [tex |-> 1, sh |-> 0, attr |-> 0,
               bytes |-> <<97, 46, 100, 100, 115, 0>>]
    IN { RipFile(GoodMagic, << <<0, 1, 2>> >>, 1, 32, t0, 0),
         RipFile(GoodMagic, << <<0, 1, 2>> >>, 1, 32, t0, 100000),
         RipFile(GoodMagic, << <<2, 2, 5>> >>, 1, 32, t0, 0),
         RipFile(GoodMagic, << <<0, 1, 2>> >>, 1, 56, t1, 4) }

\* Byte buffers for the texture scan, concatenations of a few pieces:
\* "a.dds\0", "b.dds\0", ".dds\0", "c\xFFa.dds\0" (the name starts after
\* the 0xFF) and "\x80c.dds\0" (the 0x80 is dropped by the decoding).
Chunks ==
    { <<97, 46, 100, 100, 115, 0>>,
      <<98, 46, 100, 100, 115, 0>>,
      <<46, 100, 100, 115, 0>>,
      <<99, 255, 97, 46, 100, 100, 115, 0>>,
      <<128, 99, 46, 100, 100, 115, 0>> }

DdsBuffers == { Flatten(cs) : cs \in SeqsUpTo(Chunks, MaxChunks) }

\* ------------------------------------------------------------------ state
VARIABLES
    args,               \* sys.argv[1:]
    argi,               \* number of arguments the for loop has taken
    called,             \* the arguments passed to convert_rip_to_obj
    pc,                 \* position in __main__ / convert_rip_to_obj
    EXPORT_GLB, FLIP_UV_VERTICALLY,
    textures, dds_data, search_pos,
    face_count, vert_count, stride, uv_offset,
    face_start, fpos, fi, vertex_data_start, vi,
    faces, vertices, normals, uvs,
    err,                \* the exception caught at line 345, or "none"
    failedAt,           \* the step that raised it
    reads,              \* byte ranges read while decoding each vertex
    handed,             \* what the exporter was called with (0 or 1 entry)
    outputs             \* the files written (and the attempts that failed)

vars == <<args, argi, called, pc, EXPORT_GLB, FLIP_UV_VERTICALLY,
          textures, dds_data, search_pos, face_count, vert_count, stride,
          uv_offset, face_start, fpos, fi, vertex_data_start, vi,
          faces, vertices, normals, uvs, err, failedAt, reads, handed,
          outputs>>

cfgVars == <<args, EXPORT_GLB, FLIP_UV_VERTICALLY>>
hdrVars == <<face_count, vert_count, stride, uv_offset>>
listVars == <<faces, vertices, normals, uvs>>
posVars == <<face_start, fpos, fi, vertex_data_start, vi>>

\* The bytes of the file being converted.
data == IF argi >= 1 /\ argi <= Len(args) THEN args[argi].data ELSE <<>>

\* Lines 251-253, and the values the later steps have not set yet.
Locals ==
    /\ textures = <<>> /\ dds_data = <<>> /\ search_pos = 0
    /\ face_count = 0 /\ vert_count = 0 /\ stride = 0 /\ uv_offset = -1
    /\ face_start = -1 /\ fpos = 0 /\ fi = 0
    /\ vertex_data_start = 0 /\ vi = 0
    /\ faces = <<>> /\ vertices = <<>> /\ normals = <<>> /\ uvs = <<>>
    /\ err = "none" /\ failedAt = "none" /\ reads = {} /\ handed = <<>>

InitCommon ==
    /\ argi = 0 /\ called = <<>> /\ pc = "main" /\ outputs = <<>>
    /\ EXPORT_GLB \in BOOLEAN
    /\ FLIP_UV_VERTICALLY \in BOOLEAN
    /\ Locals

\* One argument (or none): any of the files, or a non-file.
Init ==
    /\ args \in {<<>>} \cup {<<a>> : a \in RipFiles \cup {NotAFile}}
    /\ InitCommon

\* A batch of small files.
InitBatch ==
    /\ args \in SeqsUpTo(BatchFiles \cup {NotAFile}, MaxArgs)
    /\ InitCommon

\* ----------------------------------------------------------------- __main__
ResetLocals ==
    /\ textures' = <<>> /\ dds_data' = <<>> /\ search_pos' = 0
    /\ face_count' = 0 /\ vert_count' = 0 /\ stride' = 0 /\ uv_offset' = -1
    /\ face_start' = -1 /\ fpos' = 0 /\ fi' = 0
    /\ vertex_data_start' = 0 /\ vi' = 0
    /\ faces' = <<>> /\ vertices' = <<>> /\ normals' = <<>> /\ uvs' = <<>>
    /\ err' = "none" /\ failedAt' = "none" /\ reads' = {} /\ handed' = <<>>

\* for arg in sys.argv[1:]: if os.path.isfile(arg): convert_rip_to_obj(arg)
MainConvert ==
    /\ pc = "main" /\ argi < Len(args) /\ args[argi + 1].isfile
    /\ argi' = argi + 1
    /\ called' = Append(called, argi + 1)
    /\ pc' = "textures"
    /\ ResetLocals
    /\ UNCHANGED <<cfgVars, outputs>>

\* else: print("Skipping: ...")
MainSkip ==
    /\ pc = "main" /\ argi < Len(args) /\ ~args[argi + 1].isfile
    /\ argi' = argi + 1
    /\ UNCHANGED <<cfgVars, called, pc, textures, dds_data, search_pos,
                   hdrVars, posVars, listVars, err, failedAt, reads, handed,
                   outputs>>

\* The loop is over (or there was no argument): "Done. Press Enter to exit."
MainDone ==
    /\ pc = "main" /\ argi = Len(args)
    /\ pc' = "exit"
    /\ UNCHANGED <<cfgVars, argi, called, textures, dds_data, search_pos,
                   hdrVars, posVars, listVars, err, failedAt, reads, handed,
                   outputs>>

\* ------------------------------------------------------ convert_rip_to_obj
\* Lines 256-263: textures = find_dds_textures(f).
FindTextures ==
    /\ pc = "textures"
    /\ textures' = find_dds_textures(data)
    /\ pc' = "header"
    /\ UNCHANGED <<cfgVars, argi, called, dds_data, search_pos, hdrVars,
                   posVars, listVars, err, failedAt, reads, handed, outputs>>

\* The exception raised by the step named `at`; control goes to line 345.
Raise(kind, at) ==
    /\ err' = kind /\ failedAt' = at /\ pc' = "except"

\* A faulty variant of ReadHeader: the first eight bytes are compared with the
\* signature and the version, and a mismatch raises.
ReadHeader_CheckMagic ==
    /\ pc = "header"
    /\ IF ~CanRead(data, 16, 4)
       THEN /\ Raise("EOFError", "header")
            /\ UNCHANGED hdrVars
       ELSE IF Slice(data, 0, 8) # GoodMagic
       THEN /\ Raise("ValueError", "header")
            /\ UNCHANGED hdrVars
       ELSE /\ face_count' = ReadInt32At(data, 8)
            /\ vert_count' = ReadInt32At(data, 12)
            /\ stride' = ReadInt32At(data, 16)
            /\ uv_offset' = IF ReadInt32At(data, 16) \in DOMAIN UV_OFFSET_MAP
                            THEN UV_OFFSET_MAP[ReadInt32At(data, 16)]
                            ELSE -1
            /\ pc' = "facestart"
            /\ UNCHANGED <<err, failedAt>>
    /\ UNCHANGED <<cfgVars, argi, called, textures, dds_data, search_pos,
                   posVars, listVars, reads, handed, outputs>>

\* Lines 265-285: the 8 header bytes, then the words at 0x8, 0xC, 0x10, each
\* after a seek; the first read that is short raises EOFError.
ReadHeader ==
    /\ pc = "header"
    /\ IF ~(/\ CanRead(data, 0, 8) /\ CanRead(data, 8, 4)
            /\ CanRead(data, 12, 4) /\ CanRead(data, 16, 4))
       THEN /\ Raise("EOFError", "header")
            /\ UNCHANGED hdrVars
       ELSE /\ face_count' = ReadInt32At(data, 8)
            /\ vert_count' = ReadInt32At(data, 12)
            /\ stride' = ReadInt32At(data, 16)
            /\ uv_offset' = IF ReadInt32At(data, 16) \in DOMAIN UV_OFFSET_MAP
                            THEN UV_OFFSET_MAP[ReadInt32At(data, 16)]
                            ELSE -1
            /\ pc' = "facestart"
            /\ UNCHANGED <<err, failedAt>>
    /\ UNCHANGED <<cfgVars, argi, called, textures, dds_data, search_pos,
                   posVars, listVars, reads, handed, outputs>>

\* find_face_start: the first occurrence of the pattern in the whole file.
FaceStartOf(d) == Find(d, FacePattern, 0)

\* Lines 287-290.
FindFaceStart ==
    /\ pc = "facestart"
    /\ IF FaceStartOf(data) = -1
       THEN /\ Raise("ValueError", "facestart")
            /\ UNCHANGED <<face_start, fpos>>
       ELSE /\ face_start' = FaceStartOf(data)
            /\ fpos' = FaceStartOf(data)
            /\ pc' = "faces"
            /\ UNCHANGED <<err, failedAt>>
    /\ UNCHANGED <<cfgVars, argi, called, textures, dds_data, search_pos,
                   hdrVars, fi, vertex_data_start, vi, listVars, reads,
                   handed, outputs>>

\* The triplet at offset p as line 295 stores it.
FaceAt(d, p) ==
    <<ReadInt32At(d, p) + 1, ReadInt32At(d, p + 4) + 1,
      ReadInt32At(d, p + 8) + 1>>

\* A faulty variant of ReadFace: a triplet with a repeated index is not appended.
ReadFace_DropDegenerate ==
    /\ pc = "faces" /\ fi < face_count
    /\ IF ~CanRead(data, fpos, 12)
       THEN /\ Raise("EOFError", "faces")
            /\ UNCHANGED <<faces, fpos, fi>>
       ELSE /\ faces' = LET t == FaceAt(data, fpos)
                        IN IF t[1] # t[2] /\ t[1] # t[3] /\ t[2] # t[3]
                           THEN Append(faces, t) ELSE faces
            /\ fpos' = fpos + 12
            /\ fi' = fi + 1
            /\ UNCHANGED <<err, failedAt, pc>>
    /\ UNCHANGED <<cfgVars, argi, called, textures, dds_data, search_pos,
                   hdrVars, face_start, vertex_data_start, vi, vertices,
                   normals, uvs, reads, handed, outputs>>

\* Lines 291-295, one iteration: three words, appended as one triplet.
ReadFace ==
    /\ pc = "faces" /\ fi < face_count
    /\ IF ~CanRead(data, fpos, 12)
       THEN /\ Raise("EOFError", "faces")
            /\ UNCHANGED <<faces, fpos, fi>>
       ELSE /\ faces' = Append(faces, FaceAt(data, fpos))
            /\ fpos' = fpos + 12
            /\ fi' = fi + 1
            /\ UNCHANGED <<err, failedAt, pc>>
    /\ UNCHANGED <<cfgVars, argi, called, textures, dds_data, search_pos,
                   hdrVars, face_start, vertex_data_start, vi, vertices,
                   normals, uvs, reads, handed, outputs>>

\* Line 297: vertex_data_start = f.tell() once the face loop is over.
BeginVertices ==
    /\ pc = "faces" /\ fi >= face_count
    /\ vertex_data_start' = fpos
    /\ vi' = 0
    /\ pc' = "vertices"
    /\ UNCHANGED <<cfgVars, argi, called, textures, dds_data, search_pos,
                   hdrVars, face_start, fpos, fi, listVars, err, failedAt,
                   reads, handed, outputs>>

\* Three floats at offset p.
Float3At(d, p) ==
    <<ReadFloatAt(d, p), ReadFloatAt(d, p + 4), ReadFloatAt(d, p + 8)>>

\* Lines 326-333: the UV pair at offset p, V flipped when the flag is set.
UVAt(d, p, flip) ==
    <<ReadFloatAt(d, p),
      IF flip THEN FloatOne - ReadFloatAt(d, p + 4)
              ELSE ReadFloatAt(d, p + 4)>>

\* vertex_block_start of vertex i.
BlockStart(i) == vertex_data_start + i * stride

\* The reads of one iteration that succeed, for the record at offset s:
\* the position (lines 305-307), then the normal (311-313), then, after
\* the seek to s + uv_offset, the UV pair (326-327).
PosOk(s) == CanRead(data, s, 12)
NormOk(s) == PosOk(s) /\ CanRead(data, s + 12, 12)

\* A faulty variant of UVOk: the whole record of stride bytes must be in the file.
UVOk_WholeRecord(s) == NormOk(s) /\ CanRead(data, s, stride)

UVOk(s) == NormOk(s) /\ (uv_offset = -1 \/ CanRead(data, s + uv_offset, 8))

\* A faulty variant of ReadVertex: a short read ends the loop quietly instead of
\* raising.
ReadVertex_StopAtEof ==
    /\ pc = "vertices" /\ vi < vert_count
    /\ LET s == BlockStart(vi)
           okP == PosOk(s)
           okN == NormOk(s)
           okT == UVOk(s)
       IN /\ vertices' = IF okP THEN Append(vertices, Float3At(data, s))
                         ELSE vertices
          /\ normals' = IF okN THEN Append(normals, Float3At(data, s + 12))
                        ELSE normals
          /\ uvs' = IF okT /\ uv_offset # -1
                    THEN Append(uvs, UVAt(data, s + uv_offset,
                                          FLIP_UV_VERTICALLY))
                    ELSE uvs
          /\ reads' = reads
                \cup (IF okP THEN {[i |-> vi, lo |-> s, hi |-> s + 12]}
                      ELSE {})
                \cup (IF okN THEN {[i |-> vi, lo |-> s + 12, hi |-> s + 24]}
                      ELSE {})
                \cup (IF okT /\ uv_offset # -1
                      THEN {[i |-> vi, lo |-> s + uv_offset,
                             hi |-> s + uv_offset + 8]}
                      ELSE {})
          /\ IF okT
             THEN /\ vi' = vi + 1
                  /\ UNCHANGED <<err, failedAt, pc>>
             ELSE /\ pc' = "export"
                  /\ UNCHANGED <<err, failedAt, vi>>
    /\ UNCHANGED <<cfgVars, argi, called, textures, dds_data, search_pos,
                   hdrVars, face_start, fpos, fi, vertex_data_start, faces,
                   handed, outputs>>

\* Lines 298-333, one iteration: seek to the record, read position and
\* normal (appended as each is complete), then seek to the record's UV
\* offset and read the pair.  The first short read raises EOFError and
\* leaves what was appended before it.
ReadVertex ==
    /\ pc = "vertices" /\ vi < vert_count
    /\ LET s == BlockStart(vi)
           okP == PosOk(s)
           okN == NormOk(s)
           okT == UVOk(s)
       IN /\ vertices' = IF okP THEN Append(vertices, Float3At(data, s))
                         ELSE vertices
          /\ normals' = IF okN THEN Append(normals, Float3At(data, s + 12))
                        ELSE normals
          /\ uvs' = IF okT /\ uv_offset # -1
                    THEN Append(uvs, UVAt(data, s + uv_offset,
                                          FLIP_UV_VERTICALLY))
                    ELSE uvs
          /\ reads' = reads
                \cup (IF okP THEN {[i |-> vi, lo |-> s, hi |-> s + 12]}
                      ELSE {})
                \cup (IF okN THEN {[i |-> vi, lo |-> s + 12, hi |-> s + 24]}
                      ELSE {})
                \cup (IF okT /\ uv_offset # -1
                      THEN {[i |-> vi, lo |-> s + uv_offset,
                             hi |-> s + uv_offset + 8]}
                      ELSE {})
          /\ IF okT
             THEN /\ vi' = vi + 1
                  /\ UNCHANGED <<err, failedAt, pc>>
             ELSE /\ Raise("EOFError", "vertices")
                  /\ UNCHANGED vi
    /\ UNCHANGED <<cfgVars, argi, called, textures, dds_data, search_pos,
                   hdrVars, face_start, fpos, fi, vertex_data_start, faces,
                   handed, outputs>>

\* load_dds_files: each texture that exists beside the input and can be
\* read is loaded, in order; which ones is up to the file system.
RECURSIVE Pick(_, _, _)
Pick(s, keep, k) ==
    IF k > Len(s) THEN <<>>
    ELSE (IF k \in keep THEN <<s[k]>> ELSE <<>>) \o Pick(s, keep, k + 1)

\* Lines 335-343: the vertex loop is over; in GLB mode load the textures.
FinishRead ==
    /\ pc = "vertices" /\ vi >= vert_count
    /\ IF EXPORT_GLB /\ textures # <<>>
       THEN \E keep \in SUBSET (1 .. Len(textures)) :
                dds_data' = Pick(textures, keep, 1)
       ELSE UNCHANGED dds_data
    /\ pc' = "export"
    /\ UNCHANGED <<cfgVars, argi, called, textures, search_pos, hdrVars,
                   posVars, listVars, err, failedAt, reads, handed, outputs>>

\* A faulty variant of HandleException: the failed input is given up, and nothing
\* is exported for it.
HandleException_Return ==
    /\ pc = "except"
    /\ pc' = "main"
    /\ UNCHANGED <<cfgVars, argi, called, textures, dds_data, search_pos,
                   hdrVars, posVars, listVars, err, failedAt, reads, handed,
                   outputs>>

\* A faulty variant of HandleException: the exception leaves convert_rip_to_obj and
\* reaches the handler of __main__ (line 402), which ends the run.
HandleException_Reraise ==
    /\ pc = "except"
    /\ pc' = "exit"
    /\ UNCHANGED <<cfgVars, argi, called, textures, dds_data, search_pos,
                   hdrVars, posVars, listVars, err, failedAt, reads, handed,
                   outputs>>

\* Lines 345-349: except Exception: report, "Attempting to write out
\* whatever was read so far...", and fall through to the export.
HandleException ==
    /\ pc = "except"
    /\ pc' = "export"
    /\ UNCHANGED <<cfgVars, argi, called, textures, dds_data, search_pos,
                   hdrVars, posVars, listVars, err, failedAt, reads, handed,
                   outputs>>

\* ---------------------------------------------------------------- exporters
\* What convert_rip_to_obj passes to the exporter.
Lists ==
    [vertices |-> vertices, normals |-> normals, uvs |-> uvs,
     faces |-> faces]

\* One write: the file kind, whether open() and the writes succeeded, the
\* error of the read that came before, and the geometry written.
Output(kind, ok, vs, ns, ts, fs) ==
    [arg |-> argi, kind |-> kind, ok |-> ok, err |-> err,
     vertices |-> vs, normals |-> ns, uvs |-> ts, faces |-> fs]

\* A faulty variant of GlbUVs: the pairs are packed as they are.
GlbUVs_NoFlip(ts) == ts

\* Lines 129-137: the UV pairs as create_glb packs them.
GlbUVs(ts) == [k \in 1 .. Len(ts) |-> <<ts[k][1], FloatOne - ts[k][2]>>]

\* Lines 139-142: the indices as create_glb packs them.
GlbFaces(fs) ==
    [k \in 1 .. Len(fs) |-> <<fs[k][1] - 1, fs[k][2] - 1, fs[k][3] - 1>>]

\* create_glb, inside its own try/except: max() over no vertex raises
\* before the file is opened; otherwise the file is written unless the
\* file system refuses.
ExportGlb ==
    /\ pc = "export" /\ EXPORT_GLB
    /\ handed' = <<Lists>>
    /\ IF vertices = <<>>
       THEN UNCHANGED outputs
       ELSE \E ok \in BOOLEAN :
              outputs' = Append(outputs,
                                Output("glb", ok, vertices, normals,
                                       GlbUVs(uvs), GlbFaces(faces)))
    /\ pc' = "main"
    /\ UNCHANGED <<cfgVars, argi, called, textures, dds_data, search_pos,
                   hdrVars, posVars, listVars, err, failedAt, reads>>

\* Lines 353-387: the MTL when textures were found, then the OBJ, each
\* inside its own try/except.
ExportObj ==
    /\ pc = "export" /\ ~EXPORT_GLB
    /\ handed' = <<Lists>>
    /\ \E okMtl \in BOOLEAN, okObj \in BOOLEAN :
         outputs' = outputs
            \o (IF textures # <<>>
                THEN <<Output("mtl", okMtl, <<>>, <<>>, <<>>, <<>>)>>
                ELSE <<>>)
            \o <<Output("obj", okObj, vertices, normals, uvs, faces)>>
    /\ pc' = "main"
    /\ UNCHANGED <<cfgVars, argi, called, textures, dds_data, search_pos,
                   hdrVars, posVars, listVars, err, failedAt, reads>>

\* ------------------------------------------------------------ the programs
Next ==
    \/ MainConvert
    \/ MainSkip
    \/ MainDone
    \/ FindTextures
    \/ ReadHeader
    \/ FindFaceStart
    \/ ReadFace
    \/ BeginVertices
    \/ ReadVertex
    \/ FinishRead
    \/ HandleException
    \/ ExportGlb
    \/ ExportObj

\* One argument.
Spec == Init /\ [][Next]_vars

\* A batch; the interpreter runs the loop to its end.
SpecBatch == InitBatch /\ [][Next]_vars /\ WF_vars(Next)

\* ------------------------------------------- find_dds_textures, step by step
InitDds ==
    /\ args \in {<<[isfile |-> TRUE, faceOff |-> 0, data |-> b]>> :
                    b \in DdsBuffers}
    /\ argi = 1 /\ called = <<1>> /\ pc = "dds" /\ outputs = <<>>
    /\ EXPORT_GLB = FALSE /\ FLIP_UV_VERTICALLY = TRUE
    /\ Locals

\* One pass through the body of the while loop.
DdsStep ==
    /\ pc = "dds" /\ Len(textures) < 3
    /\ LET st == DdsIter(data, [textures |-> textures,
                                search_pos |-> search_pos, done |-> FALSE])
       IN /\ textures' = st.textures
          /\ search_pos' = st.search_pos
          /\ pc' = IF st.done THEN "dds_done" ELSE "dds"
    /\ UNCHANGED <<cfgVars, argi, called, dds_data, hdrVars, posVars,
                   listVars, err, failedAt, reads, handed, outputs>>

\* The loop condition fails: return textures.
DdsReturn ==
    /\ pc = "dds" /\ Len(textures) >= 3
    /\ pc' = "dds_done"
    /\ UNCHANGED <<cfgVars, argi, called, textures, dds_data, search_pos,
                   hdrVars, posVars, listVars, err, failedAt, reads, handed,
                   outputs>>

NextDds == DdsStep \/ DdsReturn

SpecDds == InitDds /\ [][NextDds]_vars /\ WF_vars(NextDds)

\* ------------------------------------------------------------- the claims
\* The file of the current call is being read or exported.
InConvert == pc \in {"header", "facestart", "faces", "vertices", "except",
                     "export"}

\* The face loop ran to its end.
PastFaces ==
    \/ pc = "vertices"
    \/ pc \in {"except", "export"} /\ failedAt \in {"none", "vertices"}

\* The number of bytes of a record the vertex loop reads: position and
\* normal, and the UV pair when the stride is mapped.
Need == IF uv_offset = -1 THEN 24 ELSE Max2(24, uv_offset + 8)

\* C1 as the spec states it: after a failed read no output file is written
\* for the input and no partially filled list reaches an exporter.
C1_NoOutputOnFailure ==
    /\ \A k \in 1 .. Len(outputs) : outputs[k].ok => outputs[k].err = "none"
    /\ err # "none" => handed = <<>>

\* C1, amended: after a failed read the exception is caught and the export
\* runs on what was read so far: the exporter is called with the lists as
\* they stood at the failure; in OBJ mode the OBJ is written from them (and
\* the MTL when texture names were found); in GLB mode the GLB is written
\* from them exactly when at least one vertex was read.
C1_SalvageOnFailure ==
    (pc = "main" /\ argi >= 1 /\ args[argi].isfile /\ err # "none") =>
        /\ handed = <<Lists>>
        /\ ~EXPORT_GLB =>
              \E k \in 1 .. Len(outputs) :
                  /\ outputs[k].arg = argi /\ outputs[k].kind = "obj"
                  /\ outputs[k].err = err
                  /\ outputs[k].vertices = vertices
                  /\ outputs[k].normals = normals
                  /\ outputs[k].uvs = uvs
                  /\ outputs[k].faces = faces
        /\ (~EXPORT_GLB /\ textures # <<>>) =>
              \E k \in 1 .. Len(outputs) :
                  outputs[k].arg = argi /\ outputs[k].kind = "mtl"
        /\ EXPORT_GLB =>
              ((\E k \in 1 .. Len(outputs) :
                   /\ outputs[k].arg = argi /\ outputs[k].kind = "glb"
                   /\ outputs[k].vertices = vertices
                   /\ outputs[k].normals = normals)
               <=> vertices # <<>>)

\* An OBJ was written from lists cut short by an EOFError in the vertex
\* loop.
C1_Witness ==
    /\ pc = "main" /\ failedAt = "vertices"
    /\ \E k \in 1 .. Len(outputs) :
          /\ outputs[k].kind = "obj" /\ outputs[k].ok
          /\ outputs[k].vertices # <<>>
          /\ Len(outputs[k].vertices) < vert_count

\* C2 as the spec states it: every retained triplet has three pairwise
\* distinct indices, each a vertex of the file (0-based index below the
\* vertex count; the list holds the indices plus one).
C2_NoDegenerateFaces ==
    InConvert =>
      \A k \in 1 .. Len(faces) :
          /\ faces[k][1] # faces[k][2]
          /\ faces[k][1] # faces[k][3]
          /\ faces[k][2] # faces[k][3]
          /\ \A j \in 1 .. 3 : faces[k][j] - 1 \in 0 .. (vert_count - 1)

\* C2, amended: every triplet read is retained, in file order, each index
\* stored plus one; once the face loop is over the list has exactly
\* face_count triplets, those with a repeated or out-of-range index
\* included.
C2_AllFacesRetained ==
    InConvert =>
      /\ \A k \in 1 .. Len(faces) :
            LET p == face_start + 12 * (k - 1)
            IN faces[k] = <<UnpackU32(Slice(data, p, 4)) + 1,
                            UnpackU32(Slice(data, p + 4, 4)) + 1,
                            UnpackU32(Slice(data, p + 8, 4)) + 1>>
      /\ PastFaces => Len(faces) = face_count

\* The face loop is over and retained the triplet (2,2,5) as (3,3,6).
C2_Witness ==
    /\ InConvert /\ PastFaces
    /\ \E k \in 1 .. Len(faces) : faces[k] = <<3, 3, 6>>

\* C3: when reading ends without an exception, the exporter gets as many
\* vertices and as many normals as the header declares, and as many UV
\* pairs when it gets any.
C3_EqualLengths ==
    (handed # <<>> /\ err = "none") =>
        /\ Len(handed[1].vertices) = vert_count
        /\ Len(handed[1].normals) = vert_count
        /\ handed[1].uvs # <<>> => Len(handed[1].uvs) = vert_count

\* A file of two vertices with UVs was read to its end and exported.
C3_Witness ==
    /\ handed # <<>> /\ err = "none"
    /\ vert_count >= 2 /\ handed[1].uvs # <<>>

\* C4 as the spec states it: a file whose first two words are not the
\* signature and the supported version yields no face and no vertex.
C4_BadMagicRejected ==
    (InConvert /\ CanRead(data, 0, 8) /\ Slice(data, 0, 8) # GoodMagic) =>
        faces = <<>> /\ vertices = <<>>

\* C4, amended: the header step fails, with EOFError and before any face
\* or vertex is read, exactly when the file has fewer than 20 bytes (the 8
\* header bytes or a count word at 0x8, 0xC or 0x10 is missing); the first
\* two words are not compared with anything.
C4_HeaderFailsOnlyWhenShort ==
    InConvert =>
      /\ failedAt = "header" =>
            /\ Len(data) < 20 /\ err = "EOFError"
            /\ faces = <<>> /\ vertices = <<>>
      /\ pc \in {"facestart", "faces", "vertices"} => Len(data) >= 20
      /\ (pc \in {"except", "export"} /\ Len(data) < 20) =>
            failedAt = "header"

\* A file with a wrong signature and version had a vertex decoded.
C4_Witness ==
    /\ InConvert /\ CanRead(data, 0, 8) /\ Slice(data, 0, 8) = BadMagic
    /\ vertices # <<>>

\* C5 as the spec states it: when fewer than V x B bytes follow the face
\* section, the vertex loop does not end without an end-of-file error.
C5_ShortBlockFails ==
    (pc = "export" /\ failedAt = "none") =>
        Len(data) - vertex_data_start >= vert_count * stride

\* C5, amended: the vertex loop fails with EOFError at the first record of
\* which fewer than Need bytes are in the file (24, or the UV offset plus 8
\* when that is more), counted from the record's start; a last record that
\* holds at least those bytes is decoded although it is shorter than B.
C5_FailsAtFirstShortRecord ==
    (InConvert /\ PastFaces) =>
      /\ \A i \in 0 .. (vi - 1) : Len(data) >= BlockStart(i) + Need
      /\ failedAt = "vertices" =>
            err = "EOFError" /\ Len(data) < BlockStart(vi) + Need
      /\ (pc = "export" /\ failedAt = "none") => vi = vert_count

\* The loop decoded a record and failed at the next one.
C5_Witness ==
    /\ InConvert /\ failedAt = "vertices"
    /\ vi >= 1 /\ Len(vertices) = vi

\* The arguments that are files, in order.
FileArgs ==
    SelectSeq([i \in 1 .. Len(args) |-> i], LAMBDA i : args[i].isfile)

\* C6: in a batch every argument that is a file is passed to
\* convert_rip_to_obj, in order, whatever happened to the files before it.
C6_AllFilesConverted == <>(pc = "exit" /\ called = FileArgs)

\* The run ended after a file whose read failed and a file after it.
C6_Witness ==
    /\ pc = "exit" /\ Len(called) >= 2
    /\ \E k \in 1 .. Len(outputs) :
          outputs[k].arg = called[1] /\ outputs[k].err # "none"

\* The UV pair of vertex k (from 1) as it stands in the file.
RawU(k) ==
    UnpackFloat(Slice(data, vertex_data_start + (k - 1) * stride
                            + uv_offset, 4))
RawV(k) ==
    UnpackFloat(Slice(data, vertex_data_start + (k - 1) * stride
                            + uv_offset + 4, 4))

\* C7 as the spec states it: with the flip enabled the V written is 1 - V
\* of the file, in the OBJ and in the GLB, and U is unchanged.
C7_FlippedOnce ==
    FLIP_UV_VERTICALLY =>
      \A n \in 1 .. Len(outputs) :
        (outputs[n].arg = argi /\ outputs[n].ok
           /\ outputs[n].kind \in {"obj", "glb"}) =>
          \A k \in 1 .. Len(outputs[n].uvs) :
              outputs[n].uvs[k] = <<RawU(k), FloatOne - RawV(k)>>

\* C7, amended: with the flip enabled the V written to the OBJ is 1 - V of
\* the file; the V written to the GLB is flipped a second time,
\* 1 - (1 - V); U is unchanged in both.
C7_FlippedOnceObjTwiceGlb ==
    FLIP_UV_VERTICALLY =>
      \A n \in 1 .. Len(outputs) :
        (outputs[n].arg = argi /\ outputs[n].ok
           /\ outputs[n].kind \in {"obj", "glb"}) =>
          \A k \in 1 .. Len(outputs[n].uvs) :
              outputs[n].uvs[k] =
                  <<RawU(k),
                    IF outputs[n].kind = "obj"
                    THEN FloatOne - RawV(k)
                    ELSE FloatOne - (FloatOne - RawV(k))>>

\* A GLB with UV pairs was written with the flip enabled.
C7_Witness ==
    /\ FLIP_UV_VERTICALLY
    /\ \E n \in 1 .. Len(outputs) :
          /\ outputs[n].kind = "glb" /\ outputs[n].ok
          /\ Len(outputs[n].uvs) >= 2

\* C8: every byte read while decoding vertex i lies inside the record of
\* vertex i.
C8_ReadsInsideRecord ==
    \A r \in reads :
        r.lo >= BlockStart(r.i) /\ r.hi <= BlockStart(r.i) + stride

\* C9: face reading starts at the beginning of the face section, after the
\* header and the tables.
C9_FaceStartAtFaceSection ==
    pc = "faces" => face_start = args[argi].faceOff

\* The offsets at which the texture pattern occurs.
Occ(d) ==
    {p \in 0 .. (Len(d) - Len(DdsPattern)) :
        \A k \in 1 .. Len(DdsPattern) : d[p + k] = DdsPattern[k]}

FirstOcc(d, name) == Min({p \in Occ(d) : TextureNameAt(d, p) = name})

EndsInDds(name) ==
    Len(name) >= 4 /\ SubSeq(name, Len(name) - 3, Len(name))
                         = <<46, 100, 100, 115>>

DdsResultOK ==
    pc = "dds_done" =>
      /\ Len(textures) <= 3
      /\ \A i, j \in 1 .. Len(textures) : i # j => textures[i] # textures[j]
      /\ \A i \in 1 .. Len(textures) :
            /\ EndsInDds(textures[i])
            /\ \E p \in Occ(data) : TextureNameAt(data, p) = textures[i]
      /\ \A i, j \in 1 .. Len(textures) :
            i < j => FirstOcc(data, textures[i]) < FirstOcc(data, textures[j])
      /\ Len(textures) < 3 =>
            \A p \in Occ(data) : InSeq(TextureNameAt(data, p), textures)

\* C10: find_dds_textures terminates; it returns at most 3 names, pairwise
\* distinct, each ending in ".dds", in the order of their first occurrence;
\* every pass of the loop that does not leave it moves the search position
\* forward.
C10_DdsScan ==
    /\ []DdsResultOK
    /\ [][(pc = "dds" /\ pc' = "dds") => search_pos' > search_pos]_vars
    /\ <>(pc = "dds_done")

\* The scan stopped at three names with an occurrence still ahead.
C10_Witness ==
    /\ pc = "dds_done" /\ Len(textures) = 3
    /\ \E p \in Occ(data) : p >= search_pos

====
